---- MODULE Spec2Model ----
(***************************************************************************)
(* Model of the SSE connection registry (SSEManager) of                    *)
(* src/features/sse/services/sse-manager.ts.                               *)
(*                                                                         *)
(* The primary Map and the index Sets are kept as sequences, because       *)
(* JavaScript Maps and Sets iterate in insertion order and the code relies *)
(* on it (ceiling eviction takes the first element of a Set).  A client    *)
(* record is an object held by reference: the registry mutates its         *)
(* isConnected and lastPing fields, and the same object can be handed to   *)
(* addClient more than once.                                               *)
(***************************************************************************)
EXTENDS Integers, Sequences, FiniteSets, TLC

\* ------------------------------------------------------------------ bounds
MaxCeiling == 2
MaxTime == 3

\* --------------------------------------------------------------- constants
\* heartbeatInterval, in clock ticks of the model
HeartbeatInterval == 1

\* absent optional field (undefined, or the falsy empty string)
None == "none"

\* ---------------------------------------------------------- client records
\* The client objects the transport may build.  Records 1 and 4 carry the
\* same id with a different userId and sessionId; record 4 has no userId.
Recs == 1..5

RecId(r) ==
  CASE r = 1 -> "x" [] r = 2 -> "y" [] r = 3 -> "z" [] r = 4 -> "x" [] OTHER -> "w"

RecUser(r) ==
  CASE r = 1 -> "A" [] r = 2 -> "A" [] r = 3 -> "A" [] r = 4 -> None [] OTHER -> "B"

RecSession(r) ==
  CASE r = 1 -> "S" [] r = 2 -> "S" [] r = 3 -> None [] r = 4 -> "T" [] OTHER -> "T"

Ids == {RecId(r) : r \in Recs}
Users == {"A", "B"}
Sessions == {"S", "T"}
ExcludeLists == {{}, {"x"}, {"y", "w"}}

\* The client objects that turn up in one run: three connections of one
\* user, or one id used by a record with a user and by one without, next to
\* a connection of another user.
Casts == {{1, 2, 3}, {1, 4, 5}}
ClockCasts == {{1, 5}}

VARIABLES
  clients,            \* primary map, as the sequence of its records in insertion order
  userClients,        \* userId -> sequence of ids (Set in insertion order)
  sessionClients,     \* sessionId -> sequence of ids
  isConnected,        \* record -> isConnected field
  lastPing,           \* record -> lastPing field
  sink,               \* record -> "none" (not built yet) | "open" | "closed"
  heartbeatTimer,     \* heartbeatInterval handle is set
  cleanupTimer,       \* cleanupInterval handle is set
  maxClientsPerUser,  \* config.maxClientsPerUser
  now,                \* Date.now()
  last,               \* the operation that has just returned, with what it did
  afterDestroy,       \* destroy() has returned and addClient was not called since
  cast,               \* the client objects of this run
  ledger,             \* ids added and removed by the caller (kept by the counted actions)
  storage,            \* a storage adapter: buffer, subscribers, file, broker client
  singleton,          \* the module-level sseServiceInstance and the instances made
  heartbeatDue,       \* the heartbeat interval has elapsed and its callback has not run yet
  route               \* record -> the stream endpoint's request that built it

vars == <<clients, userClients, sessionClients, isConnected, lastPing, sink,
          heartbeatTimer, cleanupTimer, maxClientsPerUser, now, last,
          afterDestroy, cast, ledger, storage, singleton, heartbeatDue, route>>

\* ------------------------------------------------------ Map / Set helpers
Range(s) == {s[i] : i \in DOMAIN s}

\* Set.prototype.add: appends unless present
SetAdd(s, x) == IF x \in Range(s) THEN s ELSE Append(s, x)

\* Set.prototype.delete
SetDelete(s, x) == SelectSeq(s, LAMBDA y : y # x)

\* Map.prototype.set / delete on the index maps
MapSet(f, k, v) == [j \in (DOMAIN f) \cup {k} |-> IF j = k THEN v ELSE f[j]]
MapDelete(f, k) == [j \in (DOMAIN f) \ {k} |-> f[j]]

\* this.clients.get(clientId): the record stored under the id, 0 when absent
Lookup(cl, id) ==
  IF \E i \in DOMAIN cl : RecId(cl[i]) = id
  THEN cl[CHOOSE i \in DOMAIN cl : RecId(cl[i]) = id]
  ELSE 0

\* the ids of the primary map in iteration order
ClientIds(cl) == [i \in DOMAIN cl |-> RecId(cl[i])]

\* IndexRemove that leaves the emptied set in the index
IndexRemoveKeepsEmpty(idx, key, id) ==
  IF key = None \/ key \notin DOMAIN idx THEN idx
  ELSE MapSet(idx, key, SetDelete(idx[key], id))

\* index.get(key)?.delete(id), and index.delete(key) when the set is left empty
IndexRemove(idx, key, id) ==
  IF key = None \/ key \notin DOMAIN idx THEN idx
  ELSE LET s == SetDelete(idx[key], id)
       IN IF Len(s) = 0 THEN MapDelete(idx, key) ELSE MapSet(idx, key, s)

\* if (!index.has(key)) index.set(key, new Set()); index.get(key).add(id)
IndexAdd(idx, key, id) ==
  IF key \in DOMAIN idx THEN MapSet(idx, key, SetAdd(idx[key], id))
  ELSE MapSet(idx, key, <<id>>)

\* ------------------------------------------------- the registry operations
\* An operation works on a record M of the registry's maps, the client
\* objects' fields and what the running call has done so far.
Cur ==
  [clients |-> clients, userClients |-> userClients,
   sessionClients |-> sessionClients, isConnected |-> isConnected,
   lastPing |-> lastPing, sink |-> sink,
   writes |-> <<>>, failed |-> {}, evicted |-> {}]

\* removeClient that forgets the session index
removeClientKeepsSession(M, id) ==
  LET r == Lookup(M.clients, id)
  IN IF r = 0 THEN M
     ELSE [M EXCEPT
             !.clients = SelectSeq(M.clients, LAMBDA q : q # r),
             !.userClients = IndexRemove(M.userClients, RecUser(r), id),
             !.isConnected = [M.isConnected EXCEPT ![r] = FALSE]]

\* removeClient that leaves isConnected as it is
removeClientLeavesFlag(M, id) ==
  LET r == Lookup(M.clients, id)
  IN IF r = 0 THEN M
     ELSE [M EXCEPT
             !.clients = SelectSeq(M.clients, LAMBDA q : q # r),
             !.userClients = IndexRemove(M.userClients, RecUser(r), id),
             !.sessionClients = IndexRemove(M.sessionClients, RecSession(r), id)]

removeClient(M, id) ==
  LET r == Lookup(M.clients, id)
  IN IF r = 0 THEN M
     ELSE [M EXCEPT
             !.clients = SelectSeq(M.clients, LAMBDA q : q # r),
             !.userClients = IndexRemove(M.userClients, RecUser(r), id),
             !.sessionClients = IndexRemove(M.sessionClients, RecSession(r), id),
             !.isConnected = [M.isConnected EXCEPT ![r] = FALSE]]

OverCeilingOffByOne(size, max) == size > max + 1

\* userClientSet.size > this.config.maxClientsPerUser
OverCeiling(size, max) == size > max

\* a ceiling that evicts the newest connection of the user
enforceCeilingNewest(M, user, max) ==
  LET set == M.userClients[user]
  IN IF OverCeiling(Len(set), max)
     THEN [removeClient(M, set[Len(set)]) EXCEPT !.evicted = {set[Len(set)]}]
     ELSE M

\* the per-user ceiling: evict userClientSet.values().next().value
enforceCeiling(M, user, max) ==
  LET set == M.userClients[user]
  IN IF OverCeiling(Len(set), max)
     THEN [removeClient(M, Head(set)) EXCEPT !.evicted = {Head(set)}]
     ELSE M

\* addClient that marks a re-registered record connected again
addClientRevives(M, r, max) ==
  LET M1 == removeClient(M, RecId(r))
      M2 == [M1 EXCEPT !.clients = Append(M1.clients, r),
                       !.isConnected = [M1.isConnected EXCEPT ![r] = TRUE]]
      M3 == IF RecUser(r) # None
            THEN enforceCeiling(
                   [M2 EXCEPT !.userClients = IndexAdd(M2.userClients, RecUser(r), RecId(r))],
                   RecUser(r), max)
            ELSE M2
  IN IF RecSession(r) # None
     THEN [M3 EXCEPT !.sessionClients = IndexAdd(M3.sessionClients, RecSession(r), RecId(r))]
     ELSE M3

\* addClient without the removeClient(client.id) it starts with
addClientNoReplace(M, r, max) ==
  LET M2 == [M EXCEPT !.clients = Append(M.clients, r)]
      M3 == IF RecUser(r) # None
            THEN enforceCeiling(
                   [M2 EXCEPT !.userClients = IndexAdd(M2.userClients, RecUser(r), RecId(r))],
                   RecUser(r), max)
            ELSE M2
  IN IF RecSession(r) # None
     THEN [M3 EXCEPT !.sessionClients = IndexAdd(M3.sessionClients, RecSession(r), RecId(r))]
     ELSE M3

addClient(M, r, max) ==
  LET M1 == removeClient(M, RecId(r))
      M2 == [M1 EXCEPT !.clients = Append(M1.clients, r)]
      M3 == IF RecUser(r) # None
            THEN enforceCeiling(
                   [M2 EXCEPT !.userClients = IndexAdd(M2.userClients, RecUser(r), RecId(r))],
                   RecUser(r), max)
            ELSE M2
  IN IF RecSession(r) # None
     THEN [M3 EXCEPT !.sessionClients = IndexAdd(M3.sessionClients, RecSession(r), RecId(r))]
     ELSE M3

\* controller.enqueue throws on a sink that is not open
EnqueueThrows(M, r) == M.sink[r] # "open"

\* sendToClient whose catch block reports the write as done
sendToClientSwallows(M, id, t) ==
  LET r == Lookup(M.clients, id)
  IN IF r = 0 \/ ~M.isConnected[r] THEN <<M, FALSE>>
     ELSE IF EnqueueThrows(M, r) THEN <<M, TRUE>>
          ELSE <<[M EXCEPT !.writes = Append(M.writes, r),
                           !.lastPing = [M.lastPing EXCEPT ![r] = t]], TRUE>>

\* sendToClient that does not look at isConnected
sendToClientIgnoresFlag(M, id, t) ==
  LET r == Lookup(M.clients, id)
  IN IF r = 0 THEN <<M, FALSE>>
     ELSE IF EnqueueThrows(M, r)
          THEN <<[removeClient(M, id) EXCEPT !.failed = M.failed \cup {r}], FALSE>>
          ELSE <<[M EXCEPT !.writes = Append(M.writes, r),
                           !.lastPing = [M.lastPing EXCEPT ![r] = t]], TRUE>>

\* sendToClient that writes without refreshing lastPing
sendToClientNoPing(M, id, t) ==
  LET r == Lookup(M.clients, id)
  IN IF r = 0 \/ ~M.isConnected[r] THEN <<M, FALSE>>
     ELSE IF EnqueueThrows(M, r)
          THEN <<[removeClient(M, id) EXCEPT !.failed = M.failed \cup {r}], FALSE>>
          ELSE <<[M EXCEPT !.writes = Append(M.writes, r)], TRUE>>

\* sendToClient whose catch block does not remove the client
sendToClientNoRemove(M, id, t) ==
  LET r == Lookup(M.clients, id)
  IN IF r = 0 \/ ~M.isConnected[r] THEN <<M, FALSE>>
     ELSE IF EnqueueThrows(M, r)
          THEN <<[M EXCEPT !.failed = M.failed \cup {r}], FALSE>>
          ELSE <<[M EXCEPT !.writes = Append(M.writes, r),
                           !.lastPing = [M.lastPing EXCEPT ![r] = t]], TRUE>>

\* returns <<M', result>>
sendToClient(M, id, t) ==
  LET r == Lookup(M.clients, id)
  IN IF r = 0 \/ ~M.isConnected[r] THEN <<M, FALSE>>
     ELSE IF EnqueueThrows(M, r)
          THEN <<[removeClient(M, id) EXCEPT !.failed = M.failed \cup {r}], FALSE>>
          ELSE <<[M EXCEPT !.writes = Append(M.writes, r),
                           !.lastPing = [M.lastPing EXCEPT ![r] = t]], TRUE>>

\* failedClients.forEach(clientId => this.removeClient(clientId))
RECURSIVE reapAll(_, _)
reapAll(M, ids) ==
  IF ids = <<>> THEN M
  ELSE LET M1 == removeClient(M, Head(ids))
       IN reapAll(M1, Tail(ids))

\* a fan-out loop that a failed send ends
RECURSIVE sendEachStops(_, _, _, _)
sendEachStops(M, ids, t, failedClients) ==
  IF ids = <<>> THEN <<M, failedClients>>
  ELSE LET res == sendToClient(M, Head(ids), t)
       IN IF res[2] THEN sendEachStops(res[1], Tail(ids), t, failedClients)
          ELSE <<res[1], Append(failedClients, Head(ids))>>

\* the for..of loop of sendToUser, sendToSession and broadcast.  The loop
\* body deletes at most the id being visited from the collection it walks,
\* so the traversal visits the ids the collection held when the loop began.
RECURSIVE sendEach(_, _, _, _)
sendEach(M, ids, t, failedClients) ==
  IF ids = <<>> THEN <<M, failedClients>>
  ELSE LET res == sendToClient(M, Head(ids), t)
       IN sendEach(res[1], Tail(ids), t,
                   IF res[2] THEN failedClients ELSE Append(failedClients, Head(ids)))

fanOut(M, ids, t) ==
  LET res == sendEach(M, ids, t, <<>>)
  IN reapAll(res[1], res[2])

sendToUser(M, user, t) ==
  IF user \notin DOMAIN M.userClients THEN M
  ELSE fanOut(M, M.userClients[user], t)

sendToSession(M, session, t) ==
  IF session \notin DOMAIN M.sessionClients THEN M
  ELSE fanOut(M, M.sessionClients[session], t)

\* broadcast that ignores its exclusion list
broadcastNoExclude(M, excludeClientIds, t) ==
  fanOut(M, ClientIds(M.clients), t)

broadcast(M, excludeClientIds, t) ==
  fanOut(M, SelectSeq(ClientIds(M.clients), LAMBDA id : id \notin excludeClientIds), t)

IsStaleInclusive(lp, t) == t - lp >= HeartbeatInterval * 2

\* now - client.lastPing > this.config.heartbeatInterval * 2
IsStale(lp, t) == t - lp > HeartbeatInterval * 2

cleanup(M, t) ==
  reapAll(M, SelectSeq(ClientIds(M.clients),
                       LAMBDA id : IsStale(M.lastPing[Lookup(M.clients, id)], t)))

\* destroy that clears the index maps only
destroyKeepsClients(M) ==
  [M EXCEPT
     !.sink = [r \in Recs |-> IF r \in Range(M.clients) /\ M.sink[r] = "open"
                              THEN "closed" ELSE M.sink[r]],
     !.userClients = <<>>,
     !.sessionClients = <<>>]

\* destroy without the try/catch around close(): the first sink whose close
\* throws ends the loop, and the maps are not cleared
destroyStopsAtThrow(M) ==
  LET throwing == {i \in 1..Len(M.clients) : M.sink[M.clients[i]] # "open"}
      first == CHOOSE i \in throwing : \A j \in throwing : i <= j
  IN IF throwing = {} THEN destroyKeepsClients([M EXCEPT !.clients = <<>>])
     ELSE [M EXCEPT
             !.sink = [r \in Recs |->
                         IF \E i \in 1..(first - 1) : M.clients[i] = r
                         THEN "closed" ELSE M.sink[r]]]

\* destroy(): close every registered sink (a throwing close is caught),
\* then clear the three maps
destroy(M) ==
  [M EXCEPT
     !.sink = [r \in Recs |-> IF r \in Range(M.clients) /\ M.sink[r] = "open"
                              THEN "closed" ELSE M.sink[r]],
     !.clients = <<>>,
     !.userClients = <<>>,
     !.sessionClients = <<>>]

\* read-only accessors
getClientCount == Len(clients)
getClientCountForUser(user) ==
  IF user \in DOMAIN userClients THEN Len(userClients[user]) ELSE 0
getUserClients(user) ==
  IF user \in DOMAIN userClients THEN userClients[user] ELSE <<>>

\* ------------------------------------------------------------------ state
NoOp == [op |-> "init", arg |-> None, ret |-> TRUE,
         writes |-> <<>>, failed |-> {}, evicted |-> {}]

Done(op, arg, ret, M) ==
  [op |-> op, arg |-> arg, ret |-> ret,
   writes |-> M.writes, failed |-> M.failed, evicted |-> M.evicted]

\* no storage adapter / no service accessor in the run
NoStorage == [kind |-> "none"]
NoSingleton == [sseServiceInstance |-> 0, made |-> 0, destroyed |-> {}]

\* a request of the stream endpoint: start() has run, the listeners that
\* have fired, the handler's isControllerClosed, and how often the handler
\* has called removeClient and has closed the controller
NoRoute ==
  [r \in Recs |-> [started |-> FALSE, fired |-> {}, isControllerClosed |-> FALSE,
                   removeClient |-> 0, close |-> 0]]

\* the constructor
InitWith(casts, ceilings) ==
  /\ storage = NoStorage
  /\ singleton = NoSingleton
  /\ heartbeatDue = FALSE
  /\ route = NoRoute
  /\ cast \in casts
  /\ clients = <<>>
  /\ userClients = <<>>
  /\ sessionClients = <<>>
  /\ isConnected = [r \in Recs |-> FALSE]
  /\ lastPing = [r \in Recs |-> 0]
  /\ sink = [r \in Recs |-> "none"]
  /\ heartbeatTimer = TRUE
  /\ cleanupTimer = TRUE
  /\ maxClientsPerUser \in ceilings
  /\ now = 0
  /\ last = NoOp
  /\ afterDestroy = FALSE
  /\ ledger = [net |-> {}, kept |-> {}]

Init == InitWith(Casts, 0..MaxCeiling)

InitClock == InitWith(ClockCasts, {MaxCeiling})

Commit(M) ==
  /\ clients' = M.clients
  /\ userClients' = M.userClients
  /\ sessionClients' = M.sessionClients
  /\ isConnected' = M.isConnected
  /\ lastPing' = M.lastPing
  /\ sink' = M.sink

\* The transport builds a client object (isConnected true, lastPing now, an
\* open sink) the first time a record is used; a record that exists already
\* is passed again as the object it is.
Built(r) ==
  IF sink[r] # "none" THEN Cur
  ELSE [Cur EXCEPT !.isConnected = [isConnected EXCEPT ![r] = TRUE],
                   !.lastPing = [lastPing EXCEPT ![r] = now],
                   !.sink = [sink EXCEPT ![r] = "open"]]

AddClientStep(r) ==
  LET M == addClient(Built(r), r, maxClientsPerUser)
  IN /\ r \in cast
     /\ Commit(M)
     /\ last' = Done("addClient", r, TRUE, M)
     /\ afterDestroy' = FALSE
     /\ UNCHANGED <<heartbeatTimer, cleanupTimer, maxClientsPerUser, now, cast, heartbeatDue>>

RemoveClientStep(id) ==
  LET M == removeClient(Cur, id)
  IN /\ Commit(M)
     /\ last' = Done("removeClient", id, Lookup(clients, id) # 0, M)
     /\ UNCHANGED <<heartbeatTimer, cleanupTimer, maxClientsPerUser, now, afterDestroy, cast, heartbeatDue>>

AddClient == \E r \in Recs : AddClientStep(r) /\ UNCHANGED <<ledger, storage, route, singleton>>

RemoveClient == \E id \in Ids : RemoveClientStep(id) /\ UNCHANGED <<ledger, storage, route, singleton>>

\* the same calls, with the caller keeping count of the ids it has added and
\* removed: net drops an id on removeClient only, kept also when the per-user
\* ceiling evicts it
AddClientCounted ==
  \E r \in Recs :
    /\ AddClientStep(r)
    /\ ledger' = [net |-> ledger.net \cup {RecId(r)},
                  kept |-> (ledger.kept \cup {RecId(r)}) \ last'.evicted]
    /\ UNCHANGED <<storage, route, singleton>>

RemoveClientCounted ==
  \E id \in Ids :
    /\ RemoveClientStep(id)
    /\ ledger' = [net |-> ledger.net \ {id}, kept |-> ledger.kept \ {id}]
    /\ UNCHANGED <<storage, route, singleton>>

SendToClient ==
  \E id \in Ids :
    LET res == sendToClient(Cur, id, now)
    IN /\ Commit(res[1])
       /\ last' = Done("sendToClient", id, res[2], res[1])
       /\ UNCHANGED <<heartbeatTimer, cleanupTimer, maxClientsPerUser, now,
                      afterDestroy, cast, heartbeatDue, ledger, storage, route, singleton>>

PingClient ==
  \E id \in Ids :
    LET res == sendToClient(Cur, id, now)
    IN /\ Commit(res[1])
       /\ last' = Done("pingClient", id, res[2], res[1])
       /\ UNCHANGED <<heartbeatTimer, cleanupTimer, maxClientsPerUser, now,
                      afterDestroy, cast, heartbeatDue, ledger, storage, route, singleton>>

SendToUser ==
  \E u \in Users :
    LET M == sendToUser(Cur, u, now)
    IN /\ Commit(M)
       /\ last' = Done("sendToUser", u, TRUE, M)
       /\ UNCHANGED <<heartbeatTimer, cleanupTimer, maxClientsPerUser, now,
                      afterDestroy, cast, heartbeatDue, ledger, storage, route, singleton>>

SendToSession ==
  \E s \in Sessions :
    LET M == sendToSession(Cur, s, now)
    IN /\ Commit(M)
       /\ last' = Done("sendToSession", s, TRUE, M)
       /\ UNCHANGED <<heartbeatTimer, cleanupTimer, maxClientsPerUser, now,
                      afterDestroy, cast, heartbeatDue, ledger, storage, route, singleton>>

Broadcast ==
  \E ex \in ExcludeLists :
    LET M == broadcast(Cur, ex, now)
    IN /\ Commit(M)
       /\ last' = Done("broadcast", ex, TRUE, M)
       /\ UNCHANGED <<heartbeatTimer, cleanupTimer, maxClientsPerUser, now,
                      afterDestroy, cast, heartbeatDue, ledger, storage, route, singleton>>

\* the setInterval callback of startHeartbeat
HeartbeatTick ==
  /\ heartbeatTimer
  /\ LET M == broadcast(Cur, {}, now)
     IN /\ Commit(M)
        /\ last' = Done("heartbeat", None, TRUE, M)
  /\ heartbeatDue' = FALSE
  /\ UNCHANGED <<heartbeatTimer, cleanupTimer, maxClientsPerUser, now,
                 afterDestroy, cast, ledger, storage, route, singleton>>

Cleanup ==
  /\ LET M == cleanup(Cur, now)
     IN /\ Commit(M)
        /\ last' = Done("cleanup", None, TRUE, M)
  /\ UNCHANGED <<heartbeatTimer, cleanupTimer, maxClientsPerUser, now,
                 afterDestroy, cast, heartbeatDue, ledger, storage, route, singleton>>

\* the setInterval callback of startCleanup
CleanupTick ==
  /\ cleanupTimer
  /\ LET M == cleanup(Cur, now)
     IN /\ Commit(M)
        /\ last' = Done("cleanupTick", None, TRUE, M)
  /\ UNCHANGED <<heartbeatTimer, cleanupTimer, maxClientsPerUser, now,
                 afterDestroy, cast, heartbeatDue, ledger, storage, route, singleton>>

\* destroy that leaves the cleanup interval running
DestroyKeepsCleanupTimer ==
  /\ LET M == destroy(Cur)
     IN /\ Commit(M)
        /\ last' = Done("destroy", None, TRUE, M)
  /\ heartbeatTimer' = FALSE
  /\ afterDestroy' = TRUE
  /\ heartbeatDue' = FALSE
  /\ UNCHANGED <<cleanupTimer, maxClientsPerUser, now, cast, ledger, storage, route, singleton>>

Destroy ==
  /\ LET M == destroy(Cur)
     IN /\ Commit(M)
        /\ last' = Done("destroy", None, TRUE, M)
  /\ heartbeatTimer' = FALSE
  /\ cleanupTimer' = FALSE
  /\ afterDestroy' = TRUE
  /\ heartbeatDue' = FALSE
  /\ UNCHANGED <<maxClientsPerUser, now, cast, ledger, storage, route, singleton>>

\* the clock advances
Tick ==
  /\ now < MaxTime
  /\ now' = now + 1
  /\ last' = [NoOp EXCEPT !.op = "tick"]
  /\ UNCHANGED <<clients, userClients, sessionClients, isConnected, lastPing,
                 sink, heartbeatTimer, cleanupTimer, maxClientsPerUser,
                 afterDestroy, cast, heartbeatDue, ledger, storage, route, singleton>>

\* the peer goes away: the stream is cancelled and the controller no longer
\* accepts enqueue
SinkFail ==
  \E r \in Recs :
    /\ sink[r] = "open"
    /\ sink' = [sink EXCEPT ![r] = "closed"]
    /\ last' = [NoOp EXCEPT !.op = "sinkFail", !.arg = r]
    /\ UNCHANGED <<clients, userClients, sessionClients, isConnected, lastPing,
                   heartbeatTimer, cleanupTimer, maxClientsPerUser, now,
                   afterDestroy, cast, heartbeatDue, ledger, storage, route, singleton>>

Next ==
  \/ AddClient
  \/ RemoveClient
  \/ SendToClient
  \/ PingClient
  \/ SendToUser
  \/ SendToSession
  \/ Broadcast
  \/ HeartbeatTick
  \/ Cleanup
  \/ CleanupTick
  \/ Destroy
  \/ SinkFail

Spec == Init /\ [][Next]_vars

\* the registry under broadcasts, with a clock
NextBroadcast ==
  \/ AddClient
  \/ Broadcast
  \/ SinkFail
  \/ Tick

SpecBroadcast == InitClock /\ [][NextBroadcast]_vars

\* ---------------------------------------------------------------------
\* SSEService: the typed sends over the registry and a storage adapter

REDIS_CHANNEL == "sse:events"

ServiceSends == {"sendNotification", "sendReelUploadProgress", "sendReelReady",
                 "sendUserUpdate", "sendSystemAlert", "sendCustomEvent"}

\* the eventType argument of sendCustomEvent
CustomEventType == "custom"

\* payloads: one that JSON.stringify serialises, one on which it throws
\* (a circular structure, a BigInt)
Payloads == {"d", "cyclic"}
Serialisable(data) == data # "cyclic"

\* what the adapter's publish does: resolves true, resolves false, rejects
PublishOutcomes == {"true", "false", "rejects"}

ServiceCasts == {{1, 5}}

\* the private sendToUser that publishes before delivering locally
serviceSendToUserPublishFirst(M, userId, eventType, data, available, outcome, t) ==
  IF ~Serialisable(data)
  THEN [M |-> M, ret |-> FALSE, calls |-> <<>>, published |-> <<>>]
  ELSE [M |-> sendToUser(M, userId, t), ret |-> TRUE,
        calls |-> <<"isAvailable", "publish", "sendToUser">>,
        published |-> <<[channel |-> REDIS_CHANNEL, type |-> "user_event",
                         userId |-> userId, eventType |-> eventType,
                         data |-> data, timestamp |-> t]>>]

\* the private sendToUser that returns what publish resolved to
serviceSendToUserPublishResult(M, userId, eventType, data, available, outcome, t) ==
  IF ~Serialisable(data)
  THEN [M |-> M, ret |-> FALSE, calls |-> <<>>, published |-> <<>>]
  ELSE IF available
       THEN [M |-> sendToUser(M, userId, t), ret |-> (outcome = "true"),
             calls |-> <<"sendToUser", "isAvailable", "publish">>,
             published |-> <<[channel |-> REDIS_CHANNEL, type |-> "user_event",
                              userId |-> userId, eventType |-> eventType,
                              data |-> data, timestamp |-> t]>>]
       ELSE [M |-> sendToUser(M, userId, t), ret |-> TRUE,
             calls |-> <<"sendToUser", "isAvailable">>, published |-> <<>>]

\* SSEService.sendToUser(userId, eventType, data) with an adapter whose
\* isAvailable() returns `available' and whose publish ends as `outcome'.
\* calls lists the collaborator calls in order, published the envelopes
\* handed to publish.  JSON.stringify of the event data comes first and a
\* throw there reaches the outer catch.
serviceSendToUser(M, userId, eventType, data, available, outcome, t) ==
  IF ~Serialisable(data)
  THEN [M |-> M, ret |-> FALSE, calls |-> <<>>, published |-> <<>>]
  ELSE LET M1 == sendToUser(M, userId, t)
           payload == [channel |-> REDIS_CHANNEL, type |-> "user_event",
                       userId |-> userId, eventType |-> eventType,
                       data |-> data, timestamp |-> t]
       IN IF available
          THEN [M |-> M1,
                ret |-> CASE outcome = "rejects" -> TRUE
                          [] OTHER -> TRUE,
                calls |-> <<"sendToUser", "isAvailable", "publish">>,
                published |-> <<payload>>]
          ELSE [M |-> M1, ret |-> TRUE,
                calls |-> <<"sendToUser", "isAvailable">>, published |-> <<>>]

sendNotification(M, userId, data, available, outcome, t) ==
  serviceSendToUser(M, userId, "notification", data, available, outcome, t)
sendReelUploadProgress(M, userId, data, available, outcome, t) ==
  serviceSendToUser(M, userId, "reel_upload_progress", data, available, outcome, t)
sendReelReady(M, userId, data, available, outcome, t) ==
  serviceSendToUser(M, userId, "reel_ready", data, available, outcome, t)
sendUserUpdate(M, userId, data, available, outcome, t) ==
  serviceSendToUser(M, userId, "user_update", data, available, outcome, t)
sendSystemAlert(M, userId, data, available, outcome, t) ==
  serviceSendToUser(M, userId, "system_alert", data, available, outcome, t)
sendCustomEvent(M, userId, eventType, data, available, outcome, t) ==
  serviceSendToUser(M, userId, eventType, data, available, outcome, t)

ServiceCall(op, M, userId, data, available, outcome, t) ==
  CASE op = "sendNotification" -> sendNotification(M, userId, data, available, outcome, t)
    [] op = "sendReelUploadProgress" -> sendReelUploadProgress(M, userId, data, available, outcome, t)
    [] op = "sendReelReady" -> sendReelReady(M, userId, data, available, outcome, t)
    [] op = "sendUserUpdate" -> sendUserUpdate(M, userId, data, available, outcome, t)
    [] op = "sendSystemAlert" -> sendSystemAlert(M, userId, data, available, outcome, t)
    [] op = "sendCustomEvent" -> sendCustomEvent(M, userId, CustomEventType, data, available, outcome, t)

\* one awaited service send; the adapter's answers are inputs of the call
ServiceSend ==
  \E op \in ServiceSends, u \in Users, data \in Payloads,
     available \in BOOLEAN, outcome \in PublishOutcomes :
    LET R == ServiceCall(op, Cur, u, data, available, outcome, now)
    IN \* an answer the call never asks for is not an input of it
       /\ ~Serialisable(data) => ~available
       /\ ~available => outcome = "true"
       /\ Commit(R.M)
       /\ last' = Done(op, u, R.ret, R.M) @@
                    [data |-> data, calls |-> R.calls, published |-> R.published,
                     available |-> IF "isAvailable" \in Range(R.calls)
                                   THEN available ELSE FALSE,
                     outcome |-> IF "publish" \in Range(R.calls)
                                 THEN outcome ELSE None]
       /\ UNCHANGED <<heartbeatTimer, cleanupTimer, maxClientsPerUser, now,
                      afterDestroy, cast, heartbeatDue, ledger, storage, route, singleton>>

InitService == InitWith(ServiceCasts, {MaxCeiling})

NextService ==
  \/ AddClient
  \/ SinkFail
  \/ ServiceSend

SpecService == InitService /\ [][NextService]_vars

\* ---------------------------------------------------------------------
\* The wire format.  Text is a sequence of characters.

NL == "\n"

Digits == <<"0", "1", "2", "3", "4", "5", "6", "7", "8", "9">>

\* `${n}` of a non-negative integer
RECURSIVE NumToText(_)
NumToText(n) ==
  IF n < 10 THEN <<Digits[n + 1]>>
  ELSE NumToText(n \div 10) \o <<Digits[(n % 10) + 1]>>

IsDigit(c) == \E i \in 1..10 : Digits[i] = c
DigitValue(c) == (CHOOSE i \in 1..10 : Digits[i] = c) - 1

\* parseInt(text, 10) of unsigned text: the value of the leading digits, NaN
\* when there is none
NaN == -1
RECURSIVE ParseDigits(_, _)
ParseDigits(text, acc) ==
  IF text = <<>> \/ ~IsDigit(Head(text)) THEN acc
  ELSE ParseDigits(Tail(text), acc * 10 + DigitValue(Head(text)))
parseInt(text) ==
  IF text = <<>> \/ ~IsDigit(Head(text)) THEN NaN ELSE ParseDigits(text, 0)

IdPrefix == <<"i", "d", ":", " ">>
EventPrefix == <<"e", "v", "e", "n", "t", ":", " ">>
DataPrefix == <<"d", "a", "t", "a", ":", " ">>
RetryPrefix == <<"r", "e", "t", "r", "y", ":", " ">>

\* an SSEEvent: event and data are strings, id and retry are optional
\* (hasId / hasRetry false: the property is undefined)
EventTypes == {<<>>, <<"n">>}
EventDatas == {<<>>, <<"d">>, <<"a", "\n", "b">>}
EventIds == {<<>>, <<"7">>}
EventRetries == {0, 3, 12}

SSEEvents ==
  {e \in [event : EventTypes, data : EventDatas, hasId : BOOLEAN, id : EventIds,
          hasRetry : BOOLEAN, retry : EventRetries] :
     /\ ~e.hasId => e.id = <<>>
     /\ ~e.hasRetry => e.retry = 0}

\* formatSSEEvent(event): each `if (event.x)` is a truthiness test, false for
\* undefined, for the empty string and for 0
formatSSEEvent(event) ==
  (IF event.hasId /\ event.id # <<>> THEN IdPrefix \o event.id \o <<NL>> ELSE <<>>)
  \o (IF event.event # <<>> THEN EventPrefix \o event.event \o <<NL>> ELSE <<>>)
  \o (IF event.data # <<>> THEN DataPrefix \o event.data \o <<NL>> ELSE <<>>)
  \o (IF event.hasRetry /\ event.retry # 0
      THEN RetryPrefix \o NumToText(event.retry) \o <<NL>> ELSE <<>>)
  \o <<NL>>

\* text.split('\n')
RECURSIVE SplitLines(_, _)
SplitLines(text, line) ==
  IF text = <<>> THEN <<line>>
  ELSE IF Head(text) = NL THEN <<line>> \o SplitLines(Tail(text), <<>>)
       ELSE SplitLines(Tail(text), Append(line, Head(text)))

startsWith(line, prefix) ==
  Len(line) >= Len(prefix) /\ SubSeq(line, 1, Len(prefix)) = prefix
slice(line, n) == SubSeq(line, n + 1, Len(line))

\* the type of a MessageEvent that names none
MessageType == <<"m", "e", "s", "s", "a", "g", "e">>

\* the loop of parseSSEEvent over the lines
RECURSIVE parseLines(_, _)
parseLines(lines, sseEvent) ==
  IF lines = <<>> THEN sseEvent
  ELSE LET line == Head(lines)
       IN parseLines(Tail(lines),
            IF startsWith(line, EventPrefix)
            THEN [sseEvent EXCEPT !.event = slice(line, 7)]
            ELSE IF startsWith(line, DataPrefix)
            THEN [sseEvent EXCEPT !.data = slice(line, 6)]
            ELSE IF startsWith(line, IdPrefix)
            THEN [sseEvent EXCEPT !.hasId = TRUE, !.id = slice(line, 4)]
            ELSE IF startsWith(line, RetryPrefix)
            THEN [sseEvent EXCEPT !.hasRetry = TRUE, !.retry = parseInt(slice(line, 7))]
            ELSE sseEvent)

\* parseSSEEvent of a MessageEvent with this type and this text as data
parseSSEEvent(type, text) ==
  parseLines(SplitLines(text, <<>>),
             [event |-> type, data |-> <<>>, hasId |-> FALSE, id |-> <<>>,
              hasRetry |-> FALSE, retry |-> 0])

\* the registry formats an event for a sink
FormatEvent ==
  \E e \in SSEEvents :
    /\ last' = [NoOp EXCEPT !.op = "formatSSEEvent", !.arg = e,
                            !.ret = formatSSEEvent(e)]
    /\ UNCHANGED <<clients, userClients, sessionClients, isConnected, lastPing,
                   sink, heartbeatTimer, cleanupTimer, maxClientsPerUser, now,
                   afterDestroy, cast, heartbeatDue, ledger, storage, route, singleton>>

\* the client parses the frame it was sent
ParseFrame ==
  /\ last.op = "formatSSEEvent"
  /\ last' = [NoOp EXCEPT !.op = "parseSSEEvent", !.arg = last.arg,
                          !.ret = parseSSEEvent(MessageType, last.ret)]
  /\ UNCHANGED <<clients, userClients, sessionClients, isConnected, lastPing,
                 sink, heartbeatTimer, cleanupTimer, maxClientsPerUser, now,
                 afterDestroy, cast, heartbeatDue, ledger, storage, route, singleton>>

InitFrame == InitWith({{}}, {MaxCeiling})

NextFrame ==
  \/ FormatEvent
  \/ ParseFrame

SpecFrame == InitFrame /\ [][NextFrame]_vars

\* ---------------------------------------------------------------------
\* Storage adapters: MemoryStorageAdapter, JsonFileStorageAdapter,
\* RedisStorageAdapter

MaxEvents == 2
MaxPublishes == 3
MaxStorageTime == 1

AdapterKinds == {"memory", "json-file", "redis"}
Channels == {"c", "k"}
SubscribeChannels == Channels

\* subscriber callbacks: "bad" throws when called
Callbacks == {"good", "bad"}
Throws(callback) == callback = "bad"

\* what the file holds when the adapter is constructed: nothing, something
\* readFile fails on, text JSON.parse fails on, JSON that is not an array,
\* or the events a previous process saved
FileStates == {"missing", "unreadable", "unparseable", "notArray", "events"}
StoredBefore == <<[channel |-> "c", message |-> 0, timestamp |-> 0]>>

Limits == {1, 2}

\* array.slice(start) with a negative or zero start (-0 is 0)
sliceFrom(array, start) ==
  LET from == IF start < 0
              THEN (IF Len(array) + start > 0 THEN Len(array) + start ELSE 0)
              ELSE start
  IN SubSeq(array, from + 1, Len(array))

\* this.events.push(event); if (length > maxEvents) events = events.slice(-maxEvents)
pushEvent(A, channel, t) ==
  LET event == [channel |-> channel, message |-> A.published + 1, timestamp |-> t]
      pushed == Append(A.events, event)
  IN IF Len(pushed) > A.maxEvents THEN sliceFrom(pushed, 0 - A.maxEvents)
     ELSE pushed

\* a forEach over the subscribers that the first throwing callback ends
RECURSIVE notifyStopsAtThrow(_)
notifyStopsAtThrow(callbacks) ==
  IF callbacks = <<>> THEN <<>>
  ELSE IF Throws(Head(callbacks)) THEN <<Head(callbacks)>>
       ELSE <<Head(callbacks)>> \o notifyStopsAtThrow(Tail(callbacks))

\* channelSubscribers.forEach(callback => try { callback(message) } catch ..):
\* the callbacks called, in order
notify(callbacks) == callbacks

\* a lookup that returns the callbacks of every channel
RECURSIVE SubscribersOfAny(_, _)
SubscribersOfAny(A, channel) ==
  IF DOMAIN A.subscribers = {} THEN <<>>
  ELSE LET k == CHOOSE c \in DOMAIN A.subscribers : TRUE
       IN A.subscribers[k]
            \o SubscribersOfAny([A EXCEPT !.subscribers = MapDelete(A.subscribers, k)],
                                channel)

Subscribers(A, channel) ==
  IF channel \in DOMAIN A.subscribers THEN A.subscribers[channel] ELSE <<>>

\* saveEvents(): mkdir and writeFile inside a try/catch
saveEvents(A, events, writeOk) ==
  IF writeOk THEN [state |-> "events", list |-> events] ELSE A.file

\* publish(channel, message) of the three adapters.  writeOk: the file write
\* succeeds; brokerOk: the broker call succeeds.
publish(A, channel, t, writeOk, brokerOk) ==
  CASE A.kind = "memory" ->
         [A |-> [A EXCEPT !.events = pushEvent(A, channel, t),
                          !.published = A.published + 1],
          ret |-> "true", called |-> notify(Subscribers(A, channel))]
    [] A.kind = "json-file" ->
         IF ~A.isArray
         THEN \* this.events.push is not a function: the catch block
              [A |-> [A EXCEPT !.published = A.published + 1],
               ret |-> "false", called |-> <<>>]
         ELSE [A |-> [A EXCEPT !.events = pushEvent(A, channel, t),
                               !.published = A.published + 1,
                               !.file = saveEvents(A, pushEvent(A, channel, t), writeOk)],
               ret |-> "true", called |-> notify(Subscribers(A, channel))]
    [] A.kind = "redis" ->
         [A |-> [A EXCEPT !.published = A.published + 1],
          ret |-> IF A.redisClient # "ready" THEN "false"
                  ELSE IF brokerOk THEN "true" ELSE "false",
          called |-> <<>>]

\* loadEvents(): readFile and JSON.parse inside a try/catch
loadEvents(A) ==
  CASE A.file.state = "events" -> [A EXCEPT !.events = A.file.list, !.isArray = TRUE]
    [] A.file.state = "notArray" -> [A EXCEPT !.events = <<>>, !.isArray = FALSE]
    [] OTHER -> [A EXCEPT !.events = <<>>, !.isArray = TRUE]

\* array.sort((a, b) => b.timestamp - a.timestamp): a stable sort, later
\* timestamps first
RECURSIVE insertByTimestamp(_, _)
insertByTimestamp(sorted, e) ==
  IF sorted = <<>> THEN <<e>>
  ELSE IF Head(sorted).timestamp >= e.timestamp
       THEN <<Head(sorted)>> \o insertByTimestamp(Tail(sorted), e)
       ELSE <<e>> \o sorted
RECURSIVE sortByTimestamp(_)
sortByTimestamp(array) ==
  IF array = <<>> THEN <<>>
  ELSE insertByTimestamp(sortByTimestamp(SubSeq(array, 1, Len(array) - 1)),
                         array[Len(array)])

\* getChannelEvents(channel, limit) of the memory and file adapters
getChannelEvents(A, channel, limit) ==
  IF ~A.isArray THEN [rejected |-> TRUE, ret |-> <<>>]
  ELSE LET sorted == sortByTimestamp(SelectSeq(A.events, LAMBDA e : e.channel = channel))
       IN [rejected |-> FALSE,
           ret |-> SubSeq(sorted, 1, IF limit < Len(sorted) THEN limit ELSE Len(sorted))]

\* getStats() of the memory and file adapters
getStats(A) ==
  IF ~A.isArray THEN [available |-> FALSE, requests |-> 0, limit |-> A.maxEvents]
  ELSE [available |-> TRUE, requests |-> Len(A.events), limit |-> A.maxEvents]

\* new MemoryStorageAdapter(n) / new JsonFileStorageAdapter(path, n) /
\* new RedisStorageAdapter(): the load of the file and the Redis client are
\* asynchronous and pending when the constructor returns
NewAdapter(kind, maxEvents, fileState) ==
  [kind |-> kind, maxEvents |-> maxEvents,
   events |-> <<>>, isArray |-> TRUE, published |-> 0,
   subscribers |-> <<>>,
   file |-> [state |-> fileState,
             list |-> IF fileState = "events" THEN StoredBefore ELSE <<>>],
   startFile |-> fileState,
   loadPending |-> (kind = "json-file"),
   redisClient |-> IF kind = "redis" THEN "pending" ELSE "none"]

StoreDone(op, arg, extra) ==
  [NoOp EXCEPT !.op = op, !.arg = arg] @@ extra

RegistryUnchanged ==
  UNCHANGED <<clients, userClients, sessionClients, isConnected, lastPing,
              sink, heartbeatTimer, cleanupTimer, maxClientsPerUser,
              afterDestroy, cast, heartbeatDue, ledger, singleton, route>>

Publish ==
  \E channel \in Channels, writeOk \in BOOLEAN, brokerOk \in BOOLEAN :
    LET R == publish(storage, channel, now, writeOk, brokerOk)
    IN /\ storage.published < MaxPublishes
       \* an outcome the adapter never asks for is not an input of the call
       /\ (storage.kind # "json-file" \/ ~storage.isArray) => writeOk
       /\ (storage.kind # "redis" \/ storage.redisClient # "ready") => brokerOk
       /\ storage' = R.A
       /\ last' = StoreDone("publish", channel,
                            [result |-> R.ret, called |-> R.called,
                             subscribed |-> Subscribers(storage, channel)])
       /\ UNCHANGED now
       /\ RegistryUnchanged

Subscribe ==
  \E channel \in SubscribeChannels, callback \in Callbacks :
    /\ storage' = [storage EXCEPT !.subscribers =
                     MapSet(storage.subscribers, channel,
                            SetAdd(Subscribers(storage, channel), callback))]
    /\ last' = StoreDone("subscribe", channel, <<>>)
    /\ UNCHANGED now
    /\ RegistryUnchanged

\* unsubscribe(channel): this.subscribers.delete(channel)
Unsubscribe ==
  \E channel \in SubscribeChannels :
    /\ storage' = [storage EXCEPT !.subscribers = MapDelete(storage.subscribers, channel)]
    /\ last' = StoreDone("unsubscribe", channel, <<>>)
    /\ UNCHANGED now
    /\ RegistryUnchanged

\* the pending readFile of the constructor's loadEvents() completes
LoadEvents ==
  /\ storage.loadPending
  /\ storage' = [loadEvents(storage) EXCEPT !.loadPending = FALSE]
  /\ last' = StoreDone("loadEvents", None, <<>>)
  /\ UNCHANGED now
  /\ RegistryUnchanged

\* the pending getRedis() of initialize() completes, with a client or not
RedisInitialize ==
  \E client \in {"ready", "null"} :
    /\ storage.redisClient = "pending"
    /\ storage' = [storage EXCEPT !.redisClient = client]
    /\ last' = StoreDone("initialize", None, <<>>)
    /\ UNCHANGED now
    /\ RegistryUnchanged

GetChannelEvents ==
  \E channel \in Channels, limit \in Limits :
    LET R == getChannelEvents(storage, channel, limit)
    IN /\ storage.kind \in {"memory", "json-file"}
       /\ last' = StoreDone("getChannelEvents", channel,
                            [limit |-> limit, rejected |-> R.rejected,
                             events |-> R.ret])
       /\ UNCHANGED <<now, storage, route>>
       /\ RegistryUnchanged

GetStats ==
  /\ storage.kind \in {"memory", "json-file"}
  /\ last' = StoreDone("getStats", None, [stats |-> getStats(storage)])
  /\ UNCHANGED <<now, storage, route>>
  /\ RegistryUnchanged

InitStorage ==
  /\ heartbeatDue = FALSE
  /\ route = NoRoute
  /\ \E kind \in AdapterKinds, n \in 0..MaxEvents, f \in FileStates :
       /\ kind # "json-file" => f = "missing"
       /\ kind = "redis" => n = 0
       /\ storage = NewAdapter(kind, n, f)
  /\ singleton = NoSingleton
  /\ cast = {}
  /\ clients = <<>>
  /\ userClients = <<>>
  /\ sessionClients = <<>>
  /\ isConnected = [r \in Recs |-> FALSE]
  /\ lastPing = [r \in Recs |-> 0]
  /\ sink = [r \in Recs |-> "none"]
  /\ heartbeatTimer = TRUE
  /\ cleanupTimer = TRUE
  /\ maxClientsPerUser = MaxCeiling
  /\ now = 0
  /\ last = NoOp
  /\ afterDestroy = FALSE
  /\ ledger = [net |-> {}, kept |-> {}]

\* Date.now() advances between two calls of an adapter
StorageTick == now < MaxStorageTime /\ Tick

\* the buffer of an adapter and its readers
NextStorage ==
  \/ Publish
  \/ LoadEvents
  \/ RedisInitialize
  \/ GetChannelEvents
  \/ GetStats
  \/ StorageTick

SpecStorage == InitStorage /\ [][NextStorage]_vars

\* publish and the subscribers of a channel
NextPubSub ==
  \/ Publish
  \/ Subscribe
  \/ Unsubscribe
  \/ LoadEvents
  \/ RedisInitialize

SpecPubSub == InitStorage /\ [][NextPubSub]_vars

\* ---------------------------------------------------------------------
\* The file adapter's asynchronous steps one by one.  The constructor's
\* loadEvents() is not awaited: readFile reads the file at some time and the
\* assignment to this.events runs later; publish pushes, awaits mkdir,
\* serialises this.events, and awaits writeFile.
InitLoadRace ==
  /\ InitStorage
  /\ storage.kind = "json-file"
  /\ storage.file.state \in {"missing", "events"}
  /\ storage.maxEvents > 0

\* the adapter with its pending I/O: what readFile has read, where the
\* running saveEvents() is, and the text it has serialised
Racing(A) == A @@ [read |-> [state |-> "pending", list |-> <<>>],
                   save |-> "idle", data |-> <<>>]

\* fs.readFile resolves with what the file holds now
ReadFile ==
  /\ Racing(storage).read.state = "pending"
  /\ storage.loadPending
  /\ storage' = [Racing(storage) EXCEPT !.read = storage.file]
  /\ last' = StoreDone("readFile", None, <<>>)
  /\ UNCHANGED now
  /\ RegistryUnchanged

\* this.events = JSON.parse(data), or [] in the catch block
LoadAssign ==
  /\ Racing(storage).read.state # "pending"
  /\ storage.loadPending
  /\ storage' = [loadEvents([storage EXCEPT !.file = storage.read])
                   EXCEPT !.file = storage.file, !.loadPending = FALSE]
  /\ last' = StoreDone("loadEvents", None, <<>>)
  /\ UNCHANGED now
  /\ RegistryUnchanged

\* publish up to its first await: the push, the slice and the call of mkdir
PublishPush ==
  \E channel \in Channels :
    /\ Racing(storage).save = "idle"
    /\ storage.published < MaxPublishes
    /\ storage' = [Racing(storage) EXCEPT !.events = pushEvent(storage, channel, now),
                                          !.published = storage.published + 1,
                                          !.save = "mkdir"]
    /\ last' = StoreDone("publish", channel, <<>>)
    /\ UNCHANGED now
    /\ RegistryUnchanged

\* mkdir has resolved: JSON.stringify(this.events) and the call of writeFile
SaveStringify ==
  /\ Racing(storage).save = "mkdir"
  /\ storage' = [storage EXCEPT !.data = storage.events, !.save = "writeFile"]
  /\ last' = StoreDone("saveEvents", None, <<>>)
  /\ UNCHANGED now
  /\ RegistryUnchanged

\* writeFile has resolved and publish returns true
SaveWritten ==
  /\ Racing(storage).save = "writeFile"
  /\ storage' = [storage EXCEPT !.file = saveEvents(storage, storage.data, TRUE),
                                !.save = "idle"]
  /\ last' = StoreDone("published", None, [result |-> "true"])
  /\ UNCHANGED now
  /\ RegistryUnchanged

NextLoadRace ==
  \/ ReadFile
  \/ LoadAssign
  \/ PublishPush
  \/ SaveStringify
  \/ SaveWritten
  \/ StorageTick

SpecLoadRace == InitLoadRace /\ [][NextLoadRace]_vars

\* Construction of SSEService and the module-level accessor

MaxInstances == 3

StorageTypes == {"redis", "json-file", "memory-only"}

\* a config argument: none, or one naming a storage type
ConfigInputs == {"none"} \cup StorageTypes \cup {"bogus"}

\* process.env.SSE_STORAGE_TYPE
EnvInputs == {"unset"} \cup StorageTypes \cup {"bogus"}

\* StorageFactory.getDefaultConfig().storage.type
DefaultStorageType == "json-file"

\* createStorage that falls back to the memory adapter
createStorageLenient(type) ==
  IF type \in StorageTypes THEN [threw |-> FALSE, type |-> type]
  ELSE [threw |-> FALSE, type |-> "memory-only"]

\* StorageFactory.createStorage(config): the switch on config.storage.type
createStorage(type) ==
  IF type \in StorageTypes THEN [threw |-> FALSE, type |-> type]
  ELSE [threw |-> TRUE, type |-> None]

\* new SSEService(config): the SSEManager is constructed (and its intervals
\* started) before the storage adapter is created
newSSEService(config) ==
  LET type == IF config = "none" THEN DefaultStorageType ELSE config
      made == createStorage(type)
  IN [threw |-> made.threw, storageType |-> made.type, managerStarted |-> TRUE]

\* getSSEConfig(): the switch on SSE_STORAGE_TYPE ?? 'json-file'; the
\* memory-only and default branches spread getDefaultConfig()
getSSEConfig(env) ==
  CASE env = "unset" -> "json-file"
    [] env = "redis" -> "redis"
    [] env = "json-file" -> "json-file"
    [] OTHER -> DefaultStorageType

NewSSEService ==
  \E config \in ConfigInputs :
    /\ last' = StoreDone("newSSEService", config, newSSEService(config))
    /\ UNCHANGED <<now, storage, route>>
    /\ RegistryUnchanged

\* getSSEService(): the registry variables are those of the instance the
\* accessor holds; a new instance starts with empty maps and both intervals
GetSSEService ==
  \E env \in EnvInputs :
    IF singleton.sseServiceInstance # 0
    THEN /\ last' = StoreDone("getSSEService", env,
                              [instance |-> singleton.sseServiceInstance])
         /\ UNCHANGED <<clients, userClients, sessionClients, isConnected,
                        lastPing, sink, heartbeatTimer, cleanupTimer,
                        maxClientsPerUser, now, afterDestroy, cast, heartbeatDue, ledger,
                        storage, route, singleton>>
    ELSE LET made == newSSEService(getSSEConfig(env))
         IN /\ singleton.made < MaxInstances
            /\ ~made.threw
            /\ singleton' = [singleton EXCEPT !.sseServiceInstance = singleton.made + 1,
                                              !.made = singleton.made + 1]
            /\ clients' = <<>>
            /\ userClients' = <<>>
            /\ sessionClients' = <<>>
            /\ heartbeatTimer' = TRUE
            /\ cleanupTimer' = TRUE
            /\ afterDestroy' = FALSE
            /\ last' = StoreDone("getSSEService", env,
                                 [instance |-> singleton.made + 1,
                                  storageType |-> made.storageType])
            /\ UNCHANGED <<isConnected, lastPing, sink, maxClientsPerUser, now,
                           cast, heartbeatDue, ledger, storage, route>>

\* cleanupSSEService that keeps the reference
CleanupSSEServiceKeepsInstance ==
  /\ singleton.sseServiceInstance # 0
  /\ LET M == destroy(Cur) IN Commit(M)
  /\ heartbeatTimer' = FALSE
  /\ cleanupTimer' = FALSE
  /\ afterDestroy' = TRUE
  /\ singleton' = [singleton EXCEPT
                     !.destroyed = singleton.destroyed \cup {singleton.sseServiceInstance}]
  /\ last' = StoreDone("cleanupSSEService", None, <<>>)
  /\ UNCHANGED <<maxClientsPerUser, now, cast, heartbeatDue, ledger, storage, route>>

\* cleanupSSEService(): destroy the instance held, then forget it
CleanupSSEService ==
  IF singleton.sseServiceInstance = 0
  THEN /\ last' = StoreDone("cleanupSSEService", None, <<>>)
       /\ UNCHANGED <<now, storage, route>>
       /\ RegistryUnchanged
  ELSE /\ LET M == destroy(Cur) IN Commit(M)
       /\ heartbeatTimer' = FALSE
       /\ cleanupTimer' = FALSE
       /\ afterDestroy' = TRUE
       /\ singleton' = [singleton EXCEPT
                          !.sseServiceInstance = 0,
                          !.destroyed = singleton.destroyed \cup {singleton.sseServiceInstance}]
       /\ last' = StoreDone("cleanupSSEService", None, <<>>)
       /\ UNCHANGED <<maxClientsPerUser, now, cast, heartbeatDue, ledger, storage, route>>

\* a connection is registered with the manager of the instance held
InstanceAddClient == singleton.sseServiceInstance # 0 /\ AddClient

\* before the first getSSEService() there is no instance and no registry
InitSingleton ==
  /\ heartbeatDue = FALSE
  /\ route = NoRoute
  /\ storage = NoStorage
  /\ singleton = NoSingleton
  /\ cast = {1, 5}
  /\ clients = <<>>
  /\ userClients = <<>>
  /\ sessionClients = <<>>
  /\ isConnected = [r \in Recs |-> FALSE]
  /\ lastPing = [r \in Recs |-> 0]
  /\ sink = [r \in Recs |-> "none"]
  /\ heartbeatTimer = FALSE
  /\ cleanupTimer = FALSE
  /\ maxClientsPerUser = MaxCeiling
  /\ now = 0
  /\ last = NoOp
  /\ afterDestroy = FALSE
  /\ ledger = [net |-> {}, kept |-> {}]

NextSingleton ==
  \/ NewSSEService
  \/ GetSSEService
  \/ CleanupSSEService
  \/ InstanceAddClient

SpecSingleton == InitSingleton /\ [][NextSingleton]_vars

\* the registry with a running clock
NextClock ==
  \/ AddClient
  \/ RemoveClient
  \/ SendToClient
  \/ HeartbeatTick
  \/ Cleanup
  \/ CleanupTick
  \/ Destroy
  \/ SinkFail
  \/ Tick

SpecClock == InitClock /\ [][NextClock]_vars

\* The heartbeat loop on schedule: the clock moves one heartbeatInterval at
\* a time, and only once the callback that became due has run.  Anything
\* else may happen before the callback runs.
HeartbeatElapses ==
  /\ heartbeatTimer
  /\ ~heartbeatDue
  /\ now < MaxTime
  /\ now' = now + HeartbeatInterval
  /\ heartbeatDue' = TRUE
  /\ last' = [NoOp EXCEPT !.op = "tick"]
  /\ UNCHANGED <<clients, userClients, sessionClients, isConnected, lastPing,
                 sink, heartbeatTimer, cleanupTimer, maxClientsPerUser,
                 afterDestroy, cast, ledger, storage, route, singleton>>

\* the setInterval callback of startHeartbeat, run when it is due
DueHeartbeatTick == heartbeatDue /\ HeartbeatTick

\* with the interval cleared the clock moves freely
StoppedTick == ~heartbeatTimer /\ Tick

NextHeartbeat ==
  \/ AddClient
  \/ RemoveClient
  \/ SendToClient
  \/ DueHeartbeatTick
  \/ Cleanup
  \/ CleanupTick
  \/ Destroy
  \/ SinkFail
  \/ HeartbeatElapses
  \/ StoppedTick

SpecHeartbeat == InitClock /\ [][NextHeartbeat]_vars

\* ---------------------------------------------------- the stream endpoint
\* two requests, each with the client object its start() builds
RouteCasts == {{1, 5}}

\* the events of request.signal the handler listens for
RequestEvents == {"abort", "close"}

\* start(controller): the client object is built and registered and the
\* connected event is enqueued on the fresh controller
RouteStart ==
  \E r \in cast :
    /\ ~route[r].started
    /\ sink[r] = "none"
    /\ AddClientStep(r)
    /\ route' = [route EXCEPT ![r].started = TRUE]
    /\ UNCHANGED <<ledger, storage, singleton>>

\* handleDisconnect(): controller.close() throws on a controller that is
\* not open, and the catch block leaves isControllerClosed as it is
handleDisconnect(M, R, r) ==
  IF R.isControllerClosed THEN [M |-> M, R |-> R]
  ELSE LET M1 == removeClient(M, RecId(r))
           throws == M1.sink[r] # "open"
       IN [M |-> IF throws THEN M1
                 ELSE [M1 EXCEPT !.sink = [M1.sink EXCEPT ![r] = "closed"]],
           R |-> [R EXCEPT !.removeClient = R.removeClient + 1,
                           !.close = IF throws THEN R.close ELSE R.close + 1,
                           !.isControllerClosed = ~throws]]

\* a listener of request.signal fires
HandleDisconnect ==
  \E r \in cast, ev \in RequestEvents :
    LET res == handleDisconnect(Cur, route[r], r)
    IN /\ route[r].started
       /\ ev \notin route[r].fired
       /\ Commit(res.M)
       /\ route' = [route EXCEPT ![r] = [res.R EXCEPT !.fired = res.R.fired \cup {ev}]]
       /\ last' = Done("handleDisconnect", r, TRUE, res.M)
       /\ UNCHANGED <<heartbeatTimer, cleanupTimer, maxClientsPerUser, now,
                      afterDestroy, cast, heartbeatDue, ledger, storage, singleton>>

InitRoute == InitWith(RouteCasts, {MaxCeiling})

NextRoute ==
  \/ RouteStart
  \/ HandleDisconnect
  \/ SendToClient
  \/ SinkFail
  \/ Destroy

SpecRoute == InitRoute /\ [][NextRoute]_vars

\* sequences of addClient and removeClient calls only
NextCount ==
  \/ AddClientCounted
  \/ RemoveClientCounted

SpecCount == Init /\ [][NextCount]_vars

\* ==================================================================== claims
\* the connections registered under a user / session in the primary map
RegisteredOfUser(u) == {r \in Range(clients) : RecUser(r) = u}
RegisteredOfSession(s) == {r \in Range(clients) : RecSession(r) = s}

\* the ids an index holds under a key
IndexIds(idx, key) == IF key \in DOMAIN idx THEN Range(idx[key]) ELSE {}

SendOps == {"sendToClient", "pingClient", "sendToUser", "sendToSession",
            "broadcast", "heartbeat"}

\* C1: the three maps agree: a registered connection with userId U is in the
\* user-index set of U, one with sessionId S is in the session-index set of S,
\* and every id an index set holds is registered in the primary map under
\* that user / session.
C1_MapsAgree ==
  /\ \A r \in Range(clients) :
       /\ RecUser(r) # None => RecId(r) \in IndexIds(userClients, RecUser(r))
       /\ RecSession(r) # None => RecId(r) \in IndexIds(sessionClients, RecSession(r))
  /\ \A u \in DOMAIN userClients : \A id \in Range(userClients[u]) :
       Lookup(clients, id) # 0 /\ RecUser(Lookup(clients, id)) = u
  /\ \A s \in DOMAIN sessionClients : \A id \in Range(sessionClients[s]) :
       Lookup(clients, id) # 0 /\ RecSession(Lookup(clients, id)) = s

IsAdd(r) == last'.op = "addClient" /\ last'.arg = r

\* C3 post-condition: the earliest of the user's connections is the one
\* evicted, the others and the new id remain in registration order
EvictsOldest(r) ==
  LET before == getUserClients(RecUser(r))
  IN /\ Len(before) >= 1
     /\ last'.evicted = {Head(before)}
     /\ Lookup(clients', Head(before)) = 0
     /\ userClients'[RecUser(r)] = Append(Tail(before), RecId(r))
     /\ RegisteredOfUser(RecUser(r))' =
          (RegisteredOfUser(RecUser(r)) \ {Lookup(clients, Head(before))}) \cup {r}

Reachable(u) ==
  {r \in RegisteredOfUser(u) : isConnected[r] /\ sink[r] = "open"}

\* C4 as stated: sendToUser(U, e) writes to every connection registered with
\* userId U at the time of the call and to no other connection.
C4_AsStated ==
  [][\A u \in Users :
       (last'.op = "sendToUser" /\ last'.arg = u)
       => Range(last'.writes) = RegisteredOfUser(u)]_vars

\* C4 amended: sendToUser(U, e) writes, once each, to the connections
\* registered with userId U whose isConnected flag is true and whose sink
\* accepts the write, and to no other connection.
C4_WritesToUser ==
  [][\A u \in Users :
       (last'.op = "sendToUser" /\ last'.arg = u)
       => /\ Range(last'.writes) = Reachable(u)
          /\ Len(last'.writes) = Cardinality(Reachable(u))]_vars

\* sendToUser("B") has written to the connection of B while a connection
\* with no userId is registered with an open sink and was not written
C4_Witness ==
  /\ last.op = "sendToUser"
  /\ last.arg = "B"
  /\ last.writes = <<5>>
  /\ 4 \in Range(clients) /\ isConnected[4] /\ sink[4] = "open"

\* C5: after a send in which a sink write threw, the failing connection is
\* in none of the three maps and its isConnected flag is false.
C5_FailedIsGone ==
  last.op \in SendOps =>
    \A r \in last.failed :
      /\ r \notin Range(clients)
      /\ Lookup(clients, RecId(r)) = 0
      /\ RecId(r) \notin IndexIds(userClients, RecUser(r))
      /\ RecId(r) \notin IndexIds(sessionClients, RecSession(r))
      /\ ~isConnected[r]

\* a heartbeat tick has hit a failing sink and written to a healthy one
C5_Witness ==
  /\ last.op = "heartbeat"
  /\ last.failed # {}
  /\ last.writes # <<>>

\* the connections cleanup() has to remove at the time of the call
StaleNow == {r \in Range(clients) : now - lastPing[r] > 2 * HeartbeatInterval}

\* C6: cleanup() removes exactly the registered connections whose lastPing is
\* older than 2 x heartbeatInterval, from all three maps, and leaves every
\* other connection (one exactly at the threshold included) as it was.
C6_CleanupExact ==
  [][last'.op \in {"cleanup", "cleanupTick"} =>
       /\ clients' = SelectSeq(clients, LAMBDA r : r \notin StaleNow)
       /\ \A r \in StaleNow :
            /\ RecId(r) \notin IndexIds(userClients', RecUser(r))
            /\ RecId(r) \notin IndexIds(sessionClients', RecSession(r))
       /\ \A r \in Range(clients) \ StaleNow :
            /\ isConnected'[r] = isConnected[r]
            /\ (RecUser(r) # None => RecId(r) \in IndexIds(userClients', RecUser(r)))
            /\ (RecSession(r) # None => RecId(r) \in IndexIds(sessionClients', RecSession(r)))
       /\ lastPing' = lastPing
       /\ sink' = sink]_vars

\* cleanup() has removed a stale connection and kept one whose lastPing is
\* exactly 2 x heartbeatInterval old
C6_Witness ==
  /\ last.op = "cleanup"
  /\ \E r \in Range(clients) : now - lastPing[r] = 2 * HeartbeatInterval
  /\ \E q \in Recs : /\ sink[q] # "none"
                     /\ q \notin Range(clients)
                     /\ ~isConnected[q]
                     /\ now - lastPing[q] = 2 * HeartbeatInterval + 1

\* C7: once destroy() has returned, a send operation writes to no sink,
\* reports no delivery and leaves the registry empty.
C7_SendAfterDestroy ==
  afterDestroy =>
    /\ getClientCount = 0
    /\ DOMAIN userClients = {} /\ DOMAIN sessionClients = {}
    /\ last.op \in SendOps \ {"heartbeat"} => last.writes = <<>> /\ last.failed = {}
    /\ last.op \in {"sendToClient", "pingClient"} => ~last.ret

\* a send to a user has run after destroy() closed that user's connection
C7_Witness ==
  /\ afterDestroy
  /\ last.op = "sendToUser"
  /\ last.arg = "A"
  /\ sink[1] = "closed" /\ isConnected[1]

\* C8 as stated: getClientCount() is the number of ids added minus the ids
\* removed, an id added twice counting once.
C8_AsStated == getClientCount = Cardinality(ledger.net)

\* C8 amended: getClientCount() is the number of ids added minus the ids
\* removed, where an id evicted by the per-user ceiling counts as removed.
C8_CountIsKept == getClientCount = Cardinality(ledger.kept)

\* two ids are registered after three were added and one of them evicted
C8_Witness ==
  /\ getClientCount = 2
  /\ Cardinality(ledger.net) = 3
  /\ last.op = "addClient"

\* C9 post-condition of addClient(r) over a record old registered under r's id
Replaced(old, r) ==
  /\ Lookup(clients', RecId(r)) = r
  /\ Cardinality({i \in DOMAIN clients' : RecId(clients'[i]) = RecId(r)}) = 1
  /\ old # r => ~isConnected'[old] /\ old \notin Range(clients')
  /\ RecUser(old) # RecUser(r) =>
       RecId(r) \notin IndexIds(userClients', RecUser(old))
  /\ RecSession(old) # RecSession(r) =>
       RecId(r) \notin IndexIds(sessionClients', RecSession(old))
  /\ RecUser(r) # None =>
       Len(SelectSeq(userClients'[RecUser(r)], LAMBDA id : id = RecId(r))) = 1
  /\ RecSession(r) # None =>
       Len(SelectSeq(sessionClients'[RecSession(r)], LAMBDA id : id = RecId(r))) = 1
  /\ getClientCount' <= getClientCount

\* C9 as stated: addClient over a registered id tears the old record down and
\* leaves the new record registered, the id counted once, no index entry of
\* the old userId / sessionId keeping the id.
C9_AsStated ==
  [][\A r \in Recs :
       (IsAdd(r) /\ Lookup(clients, RecId(r)) # 0)
       => Replaced(Lookup(clients, RecId(r)), r)]_vars

\* C9 amended: the same, when maxClientsPerUser is at least 1 or the new
\* record has no userId.
C9_ReplaceById ==
  [][\A r \in Recs :
       (IsAdd(r) /\ Lookup(clients, RecId(r)) # 0
          /\ (maxClientsPerUser >= 1 \/ RecUser(r) = None))
       => Replaced(Lookup(clients, RecId(r)), r)]_vars

\* record 4 has replaced record 1 under the id they share: record 1 is
\* disconnected and its user and session entries are gone
C9_Witness ==
  /\ last.op = "addClient"
  /\ last.arg = 4
  /\ Lookup(clients, "x") = 4
  /\ sink[1] # "none" /\ ~isConnected[1]
  /\ 5 \in Range(clients)
  /\ "A" \notin DOMAIN userClients

\* C10: removeClient(id) of a registered id removes it from the primary map
\* and from its user and session index sets and sets isConnected to false;
\* removeClient of an unknown id changes no map and no connection.
C10_RemoveClient ==
  [][\A id \in Ids :
       (last'.op = "removeClient" /\ last'.arg = id) =>
         IF Lookup(clients, id) # 0
         THEN LET r == Lookup(clients, id)
              IN /\ clients' = SelectSeq(clients, LAMBDA q : q # r)
                 /\ id \notin IndexIds(userClients', RecUser(r))
                 /\ id \notin IndexIds(sessionClients', RecSession(r))
                 /\ ~isConnected'[r]
                 /\ \A q \in Recs \ {r} : isConnected'[q] = isConnected[q]
         ELSE UNCHANGED <<clients, userClients, sessionClients, isConnected,
                          lastPing, sink>>]_vars

\* a registered connection has been removed while another one stays
C10_Witness ==
  /\ last.op = "removeClient"
  /\ last.ret
  /\ ~isConnected[1] /\ sink[1] = "open"
  /\ 2 \in Range(clients) /\ isConnected[2]

\* the connections the registry has removed: built, no longer registered,
\* isConnected false
Removed == {r \in Recs : sink[r] # "none" /\ r \notin Range(clients) /\ ~isConnected[r]}

\* C11: whenever the registry removes a connection (removeClient, a failed
\* write, the staleness cleanup, the per-user ceiling) it closes the
\* connection's sink: no removed connection is left with an open sink.
C11_RemovedSinkClosed == \A r \in Removed : sink[r] = "closed"

\* the step is sendToClient(id)
IsSendToClient(id) == last'.op = "sendToClient" /\ last'.arg = id

\* C12: sendToClient(id, e) returns true exactly when id is registered, its
\* isConnected flag is true and the sink accepts the write; then one frame is
\* written to that connection, its lastPing becomes the current time, and no
\* other connection is written to or modified.
C12_SendToClient ==
  [][\A id \in Ids : IsSendToClient(id) =>
       LET r == Lookup(clients, id)
           ok == r # 0 /\ isConnected[r] /\ sink[r] = "open"
       IN /\ last'.ret = ok
          /\ ok => /\ last'.writes = <<r>>
                   /\ lastPing' = [lastPing EXCEPT ![r] = now]
                   /\ UNCHANGED <<clients, userClients, sessionClients,
                                  isConnected, sink>>
          /\ ~ok => last'.writes = <<>> /\ lastPing' = lastPing]_vars

\* sendToClient has delivered to one connection at a later time than the
\* last write to another registered connection
C12_Witness ==
  /\ last.op = "sendToClient"
  /\ last.ret
  /\ last.writes = <<1>>
  /\ lastPing[1] = now
  /\ 5 \in Range(clients) /\ lastPing[5] < now

\* C13: sendToClient(id, e) on a registered connection whose isConnected flag
\* is false returns false and removes the connection from the primary map
\* and from both indexes.
C13_NotConnectedRemoved ==
  [][\A id \in Ids :
       (IsSendToClient(id) /\ Lookup(clients, id) # 0
          /\ ~isConnected[Lookup(clients, id)])
       => LET r == Lookup(clients, id)
          IN /\ ~last'.ret
             /\ Lookup(clients', id) = 0
             /\ id \notin IndexIds(userClients', RecUser(r))
             /\ id \notin IndexIds(sessionClients', RecSession(r))]_vars

\* the step is broadcast(e, ex)
IsBroadcast(ex) == last'.op = "broadcast" /\ last'.arg = ex

\* the registered connections a broadcast excludes / addresses
Excluded(ex) == {r \in Range(clients) : RecId(r) \in ex}
Addressed(ex) == {r \in Range(clients) : RecId(r) \notin ex}

\* excluded connections are not written to and keep lastPing, registration,
\* flag and sink
ExcludedUntouched(ex) ==
  \A r \in Excluded(ex) :
    /\ r \notin Range(last'.writes)
    /\ lastPing'[r] = lastPing[r]
    /\ r \in Range(clients')
    /\ isConnected'[r] = isConnected[r]
    /\ sink'[r] = sink[r]

\* C14 as stated: broadcast(e, excludeIds) writes e to every registered
\* connection whose id is not in excludeIds and to none whose id is; excluded
\* connections are left untouched.
C14_AsStated ==
  [][\A ex \in ExcludeLists :
       IsBroadcast(ex) => /\ Range(last'.writes) = Addressed(ex)
                          /\ ExcludedUntouched(ex)]_vars

\* C14 amended: broadcast(e, excludeIds) writes e, once each, to the
\* registered connections whose id is not in excludeIds, whose isConnected
\* flag is true and whose sink accepts the write, and to no other; excluded
\* connections are not written to, keep their lastPing and stay registered,
\* even with a failing sink.
C14_BroadcastExcludes ==
  [][\A ex \in ExcludeLists :
       IsBroadcast(ex) =>
         LET good == {r \in Addressed(ex) : isConnected[r] /\ sink[r] = "open"}
         IN /\ Range(last'.writes) = good
            /\ Len(last'.writes) = Cardinality(good)
            /\ ExcludedUntouched(ex)]_vars

\* a broadcast excluding "x" has written to the other connection, later than
\* the last write to "x", and "x" is still registered with a failing sink
C14_Witness ==
  /\ last.op = "broadcast"
  /\ last.arg = {"x"}
  /\ last.writes = <<5>>
  /\ 1 \in Range(clients) /\ sink[1] = "closed"
  /\ lastPing[1] < now /\ lastPing[5] = now

GroupOps == {"sendToUser", "sendToSession", "broadcast"}

\* the registered connections a group send addresses
IndexTargets(idx, key) == {Lookup(clients, id) : id \in IndexIds(idx, key)} \ {0}

\* a group send has acted on the targets T: the connections of `good' were
\* written once each and the other targets, and only they, were removed
Absorbed(T, good) ==
  /\ last'.ret
  /\ Range(last'.writes) = good
  /\ Len(last'.writes) = Cardinality(good)
  /\ clients' = SelectSeq(clients, LAMBDA r : r \notin T \ good)

\* every group send treats its targets as Absorbed(T, Good(T)) requires
EveryGroupSend(Good(_)) ==
  /\ \A u \in Users :
       (last'.op = "sendToUser" /\ last'.arg = u)
       => Absorbed(IndexTargets(userClients, u), Good(IndexTargets(userClients, u)))
  /\ \A s \in Sessions :
       (last'.op = "sendToSession" /\ last'.arg = s)
       => Absorbed(IndexTargets(sessionClients, s), Good(IndexTargets(sessionClients, s)))
  /\ \A ex \in ExcludeLists :
       IsBroadcast(ex) => Absorbed(Addressed(ex), Good(Addressed(ex)))

SinkHealthy(T) == {r \in T : sink[r] = "open"}
Deliverable(T) == {r \in T : isConnected[r] /\ sink[r] = "open"}

\* C15 as stated: in sendToUser, sendToSession and broadcast a write failure
\* on one target is absorbed: the operation does not throw, every other
\* target whose sink is healthy receives the event exactly once, and exactly
\* the failing targets are removed.
C15_AsStated == [][EveryGroupSend(SinkHealthy)]_vars

\* C15 amended: the operation does not throw, every target whose isConnected
\* flag is true and whose sink is healthy receives the event exactly once,
\* and exactly the other targets (failed write, or isConnected false) are
\* removed.
C15_FailureAbsorbed == [][EveryGroupSend(Deliverable)]_vars

\* sendToUser("A") has hit the failing sink of the user's first connection
\* and written to the second
C15_Witness ==
  /\ last.op = "sendToUser"
  /\ last.arg = "A"
  /\ last.failed = {1}
  /\ last.writes = <<2>>
  /\ Range(clients) = {2}

\* C16: destroy() clears both timers, closes the sink of every registered
\* connection (a sink whose close throws does not stop the others from being
\* closed) and leaves the primary map and both index maps empty; a second
\* destroy() does not throw and changes nothing.
C16_Destroy ==
  [][last'.op = "destroy" =>
       /\ last'.ret
       /\ ~heartbeatTimer' /\ ~cleanupTimer'
       /\ \A r \in Range(clients) : sink'[r] = "closed"
       /\ clients' = <<>>
       /\ DOMAIN userClients' = {} /\ DOMAIN sessionClients' = {}
       /\ afterDestroy => UNCHANGED <<clients, userClients, sessionClients,
                                      isConnected, lastPing, sink,
                                      heartbeatTimer, cleanupTimer>>]_vars

\* destroy() has closed the sinks of two registered connections, the first
\* of which had failed before
C16_Witness ==
  /\ last.op = "destroy"
  /\ ~heartbeatTimer /\ ~cleanupTimer
  /\ clients = <<>>
  /\ isConnected[1] /\ sink[1] = "closed"
  /\ isConnected[2] /\ sink[2] = "closed"

\* destroy() has returned: it is the only operation that clears a timer
\* handle, and none is set after construction
Destroyed == ~heartbeatTimer \/ ~cleanupTimer

BackgroundOps == {"heartbeat", "cleanupTick"}

\* C17: once destroy() has returned, no heartbeat tick and no cleanup tick
\* runs again: no step after it is a run of a background loop.
C17_NoTickAfterDestroy ==
  [][Destroyed => last'.op \notin BackgroundOps]_vars

\* after destroy() a connection is registered whose sink fails: a heartbeat
\* tick would reap it
C17_Witness ==
  /\ Destroyed
  /\ last.op = "sinkFail"
  /\ \E r \in Range(clients) : isConnected[r] /\ sink[r] = "closed"

\* the step is a service send for user u
IsServiceSend(u) == last'.op \in ServiceSends /\ last'.arg = u

\* C18: every SSEService send resolves to true once local delivery has been
\* attempted, whatever the adapter does (isAvailable() false, publish
\* resolving false, publish rejecting), and the local delivery made stands.
C18_LocalResultStands ==
  [][\A u \in Users :
       (IsServiceSend(u) /\ "sendToUser" \in Range(last'.calls))
       => /\ last'.ret
          /\ Range(last'.writes) = Reachable(u)
          /\ Len(last'.writes) = Cardinality(Reachable(u))]_vars

\* a send has delivered locally and the adapter's publish rejected
C18_Witness ==
  /\ last.op = "sendReelReady"
  /\ last.arg = "A"
  /\ last.writes = <<1>>
  /\ 5 \in Range(clients)
  /\ last.available /\ last.outcome = "rejects"
  /\ last.ret

\* position of a call in the list of collaborator calls (0: not called)
CallAt(calls, name) ==
  IF name \in Range(calls) THEN CHOOSE i \in 1..Len(calls) : calls[i] = name ELSE 0
CallCount(calls, name) == Cardinality({i \in 1..Len(calls) : calls[i] = name})

EventTypeOf(op) ==
  CASE op = "sendNotification" -> "notification"
    [] op = "sendReelUploadProgress" -> "reel_upload_progress"
    [] op = "sendReelReady" -> "reel_ready"
    [] op = "sendUserUpdate" -> "user_update"
    [] op = "sendSystemAlert" -> "system_alert"
    [] op = "sendCustomEvent" -> CustomEventType

\* local delivery first, then publish exactly when the adapter is available
LocalThenPublish ==
  /\ CallCount(last.calls, "sendToUser") = 1
  /\ last.calls[1] = "sendToUser"
  /\ CallCount(last.calls, "publish") = (IF last.available THEN 1 ELSE 0)
  /\ last.available =>
       /\ CallAt(last.calls, "publish") > CallAt(last.calls, "sendToUser")
       /\ last.published = <<[channel |-> REDIS_CHANNEL, type |-> "user_event",
                              userId |-> last.arg,
                              eventType |-> EventTypeOf(last.op),
                              data |-> last.data, timestamp |-> now]>>
  /\ ~last.available => last.published = <<>>

C20_AlertToAll ==
  [][(last'.op = "sendSystemAlert" /\ Serialisable(last'.data))
     => /\ "broadcast" \in Range(last'.calls)
        /\ Range(last'.writes)
             = {r \in Range(clients) : isConnected[r] /\ sink[r] = "open"}]_vars

\* the frame the wire format prescribes for an event: the lines of the fields
\* present, in the order id, event, data, retry, then one blank line
FieldLine(present, prefix, text) ==
  IF present THEN prefix \o text \o <<NL>> ELSE <<>>
PrescribedFrame(e) ==
  FieldLine(e.hasId, IdPrefix, e.id)
  \o FieldLine(TRUE, EventPrefix, e.event)
  \o FieldLine(TRUE, DataPrefix, e.data)
  \o FieldLine(e.hasRetry, RetryPrefix, NumToText(e.retry))
  \o <<NL>>

\* C21: the frame written for an event holds, in this order and only for the
\* fields present, the lines "id: <id>", "event: <type>", "data: <payload>",
\* "retry: <ms>", each ended by one newline, then one blank line; an absent
\* optional field contributes no line.
C21_FrameAsPrescribed ==
  last.op = "formatSSEEvent" => last.ret = PrescribedFrame(last.arg)

\* C22: formatting an event and parsing the frame back yields the original
\* type, data, id and retry, for every event (retry 0 and empty data
\* included).
C22_RoundTrip ==
  last.op = "parseSSEEvent" => last.ret = last.arg

Retaining == storage.kind \in {"memory", "json-file"}

RECURSIVE Counted(_)
Counted(n) == IF n = 0 THEN <<>> ELSE Append(Counted(n - 1), n)
PublishedMessages ==
  (IF storage.startFile = "events" /\ ~storage.loadPending THEN <<0>> ELSE <<>>)
  \o Counted(storage.published)

MessagesOf(events) == [i \in 1..Len(events) |-> events[i].message]

Min(a, b) == IF a < b THEN a ELSE b

\* C24: for every maximum N >= 0 the memory and file adapters retain at most
\* N events after each publish, and these are the most recently published
\* ones in publish order.
C24_RetainsLatest ==
  (Retaining /\ last.op = "publish") =>
    /\ Len(storage.events) <= storage.maxEvents
    /\ MessagesOf(storage.events)
         = sliceFrom(PublishedMessages,
                     Len(PublishedMessages)
                       - Min(storage.maxEvents, Len(PublishedMessages)))

Reverse(seq) == [i \in 1..Len(seq) |-> seq[Len(seq) + 1 - i]]

\* C25: getChannelEvents(channel, limit) returns only events of that
\* channel, at most limit of them, most recently published first, also for
\* events with equal timestamps.
C25_MostRecentFirst ==
  (last.op = "getChannelEvents" /\ ~last.rejected) =>
    LET ofChannel == SelectSeq(storage.events, LAMBDA e : e.channel = last.arg)
    IN last.events = SubSeq(Reverse(ofChannel), 1, Min(last.limit, Len(ofChannel)))

BadStart == storage.startFile \in {"missing", "unreadable", "unparseable", "notArray"}

\* C26: a file adapter started on a missing, unreadable or invalid file is an
\* empty store: with nothing published it holds no event, and publish,
\* getChannelEvents and getStats work without throwing.
C26_BadFileIsEmpty ==
  (storage.kind = "json-file" /\ BadStart /\ ~storage.loadPending) =>
    /\ storage.isArray
    /\ storage.published = 0 => storage.events = <<>>
    /\ last.op = "publish" => last.result = "true"
    /\ last.op = "getChannelEvents" => ~last.rejected
    /\ last.op = "getStats" => last.stats.available

LiveInstances == (1..singleton.made) \ singleton.destroyed

\* C28: across getSSEService() and cleanupSSEService() calls at most one
\* non-destroyed instance is reachable through the accessor: getSSEService()
\* returns the instance held if there is one and makes a fresh one
\* otherwise, cleanupSSEService() destroys the instance held (timers stopped,
\* registry emptied) and forgets it.
C28_OneInstance ==
  [][/\ Cardinality(LiveInstances') <= 1
     /\ singleton'.sseServiceInstance # 0
          => LiveInstances' = {singleton'.sseServiceInstance}
     /\ last'.op = "getSSEService" =>
          /\ last'.instance = singleton'.sseServiceInstance
          /\ last'.instance \notin singleton'.destroyed
          /\ singleton.sseServiceInstance # 0
               => last'.instance = singleton.sseServiceInstance
          /\ singleton.sseServiceInstance = 0
               => /\ last'.instance \notin 1..singleton.made
                  /\ clients' = <<>> /\ heartbeatTimer' /\ cleanupTimer'
     /\ last'.op = "cleanupSSEService" =>
          /\ singleton'.sseServiceInstance = 0
          /\ LiveInstances' = {}
          /\ ~heartbeatTimer' /\ ~cleanupTimer'
          /\ clients' = <<>>
          /\ DOMAIN userClients' = {} /\ DOMAIN sessionClients' = {}]_vars

\* a second instance is held after the first, which had a connection, was
\* cleaned up
C28_Witness ==
  /\ last.op = "getSSEService"
  /\ last.instance = 2
  /\ singleton.destroyed = {1}
  /\ sink[1] = "closed"
  /\ heartbeatTimer


\* ---------------------------------------------------------------- C29
\* A record that has been built and whose isConnected is false has been
\* through removeClient (the only assignment of false in the registry).
WasRemoved(r) == sink[r] # "none" /\ ~isConnected[r]

\* C29: removal is terminal.  Once a record has been removed (by
\* removeClient, by a failed write, by eviction or by cleanup), no later
\* step writes an event into its sink and its isConnected stays false,
\* also when the same record is registered again with addClient.
C29_RemovalIsTerminal ==
  [][\A r \in Recs :
       WasRemoved(r) => /\ r \notin Range(last'.writes)
                        /\ ~isConnected'[r]
                        /\ lastPing'[r] = lastPing[r]]_vars

\* record 1 was removed, registered again with its sink still open, and a
\* send addressed to it wrote nothing
C29_Witness ==
  /\ last.op = "sendToClient"
  /\ last.arg = RecId(1)
  /\ ~last.ret
  /\ last.writes = <<>>
  /\ 1 \in Range(clients)
  /\ WasRemoved(1)
  /\ sink[1] = "open"

\* ---------------------------------------------------------------- C30
\* The registries a group send passes through: element i is the registry
\* after the i-th target has been attempted, before the reap that follows
\* the loop.
RECURSIVE TraversalStates(_, _, _)
TraversalStates(M, ids, t) ==
  IF ids = <<>> THEN <<>>
  ELSE LET res == sendToClient(M, Head(ids), t)
       IN <<res[1]>> \o TraversalStates(res[1], Tail(ids), t)

Untouched(M, states) ==
  \A i \in DOMAIN states :
    /\ states[i].clients = M.clients
    /\ states[i].userClients = M.userClients
    /\ states[i].sessionClients = M.sessionClients

\* C30: collect-then-reap.  While sendToUser, sendToSession or broadcast
\* traverses its targets, the primary map and both indices stay as they
\* were when the traversal began; failed targets leave only afterwards.
C30_CollectThenReap ==
  /\ \A u \in DOMAIN userClients :
       Untouched(Cur, TraversalStates(Cur, userClients[u], now))
  /\ \A s \in DOMAIN sessionClients :
       Untouched(Cur, TraversalStates(Cur, sessionClients[s], now))
  /\ Untouched(Cur, TraversalStates(Cur, ClientIds(clients), now))


\* ---------------------------------------------------------------- C31
\* C31: between operations no user-index or session-index entry maps to an
\* empty set; a user without a registered connection has no entry at all,
\* and for an absent entry getClientCountForUser is 0 and getUserClients is
\* the empty list.
C31_NoEmptySets ==
  /\ \A u \in DOMAIN userClients : userClients[u] # <<>>
  /\ \A s \in DOMAIN sessionClients : sessionClients[s] # <<>>
  /\ \A u \in Users :
       RegisteredOfUser(u) = {} =>
         /\ u \notin DOMAIN userClients
         /\ getClientCountForUser(u) = 0
         /\ getUserClients(u) = <<>>

\* removeClient has just removed the only connection of user A and of
\* session S while another user's connection stays registered
C31_Witness ==
  /\ last.op = "removeClient"
  /\ last.ret
  /\ last.arg = RecId(1)
  /\ sink[1] # "none"
  /\ 1 \notin Range(clients)
  /\ clients # <<>>
  /\ "A" \notin DOMAIN userClients
  /\ "S" \notin DOMAIN sessionClients
  /\ getClientCountForUser("A") = 0
  /\ DOMAIN userClients # {}


\* ---------------------------------------------------------------- C32
\* a registered connection that sendToClient writes to and whose sink
\* accepts the write
Healthy(r) == r \in Range(clients) /\ isConnected[r] /\ sink[r] = "open"

\* C32: while the heartbeat loop fires every heartbeatInterval, a healthy
\* connection registered with a current lastPing is never stale: every
\* heartbeat tick writes to it and sets its lastPing to the time of the
\* tick, its lastPing is never older than 2 x heartbeatInterval, and no
\* cleanup, whenever it runs, removes it.
C32_HeartbeatKeepsAlive ==
  [][/\ heartbeatTimer' =>
          \A r \in Recs : Healthy(r)' => ~IsStale(lastPing'[r], now')
     /\ last'.op = "heartbeat" =>
          \A r \in Recs : Healthy(r) =>
            /\ r \in Range(last'.writes)
            /\ lastPing'[r] = now
            /\ Healthy(r)'
     /\ (heartbeatTimer /\ last'.op \in {"cleanup", "cleanupTick"}) =>
          \A r \in Recs : Healthy(r) => Healthy(r)']_vars

\* a cleanup has run at the latest time of the run, after every heartbeat
\* that was due, and has left the connection registered at time 0
C32_Witness ==
  /\ last.op \in {"cleanup", "cleanupTick"}
  /\ now = MaxTime
  /\ heartbeatTimer
  /\ ~heartbeatDue
  /\ Healthy(1)
  /\ lastPing[1] = now


\* ---------------------------------------------------------------- C33
\* the callbacks the adapter holds for a channel
SubscribedTo(channel) ==
  IF channel \in DOMAIN storage.subscribers
  THEN storage.subscribers[channel] ELSE <<>>

NoRepeat(seq) == \A i, j \in DOMAIN seq : seq[i] = seq[j] => i = j

\* C33: in the in-memory adapter publish(channel, m) resolves true after it
\* has called every callback subscribed to the channel, each one once (a
\* callback that throws does not keep the rest from being called), and no
\* other callback; after unsubscribe(channel) the channel has no callbacks,
\* so that a later publish to it calls none of those it had.
C33_SubscribersCalled ==
  storage.kind = "memory" =>
    /\ \A c \in DOMAIN storage.subscribers : NoRepeat(storage.subscribers[c])
    /\ last.op = "publish" =>
         /\ last.result = "true"
         /\ last.called = SubscribedTo(last.arg)
         /\ NoRepeat(last.called)
    /\ last.op = "unsubscribe" => SubscribedTo(last.arg) = <<>>

\* a publish to channel c has called the throwing callback and then the
\* other one, and not again the callback that channel k holds as well
C33_Witness ==
  /\ storage.kind = "memory"
  /\ last.op = "publish"
  /\ last.arg = "c"
  /\ last.called = <<"bad", "good">>
  /\ SubscribedTo("k") = <<"good">>


\* ---------------------------------------------------------------- C34
\* C34: for every connection the stream endpoint accepted, its disconnect
\* handler calls removeClient once, however many of the request's abort and
\* close events fire and in whatever order, and closes the sink at most
\* once, also when the sink was closed before the handler ran.
C34_RemoveOnce ==
  \A r \in Recs :
    /\ route[r].removeClient <= 1
    /\ route[r].close <= 1
    /\ route[r].fired # {} => route[r].removeClient = 1


\* ---------------------------------------------------------------- C35
\* C35: a service constructed without a configuration (the default
\* configuration) and the service getSSEService() makes when
\* SSE_STORAGE_TYPE is memory-only both hold the memory-only backend.
C35_DefaultIsMemoryOnly ==
  /\ (last.op = "newSSEService" /\ last.arg = "none") =>
       (~last.threw /\ last.storageType = "memory-only")
  /\ (last.op = "getSSEService" /\ last.arg = "memory-only"
        /\ "storageType" \in DOMAIN last) =>
       last.storageType = "memory-only"

\* ---------------------------------------------------------------- C38
\* C38: a construction of SSEService that fails on an unsupported storage
\* type leaves no heartbeat or cleanup interval of the registry it had
\* constructed running.
C38_FailedConstructionLeaksNothing ==
  (last.op = "newSSEService" /\ last.threw) => ~last.managerStarted


\* ---------------------------------------------------------------- C36
\* C36: with maxClientsPerUser 0, addClient of a connection that has a
\* userId and a sessionId leaves no trace of it: the record is not in the
\* primary map, its id is in no set of the user index and in no set of the
\* session index.
C36_CeilingZeroNoTrace ==
  (/\ maxClientsPerUser = 0
   /\ last.op = "addClient"
   /\ RecUser(last.arg) # None
   /\ RecSession(last.arg) # None) =>
    /\ last.arg \notin Range(clients)
    /\ RecId(last.arg) \notin IndexIds(userClients, RecUser(last.arg))
    /\ RecId(last.arg) \notin IndexIds(sessionClients, RecSession(last.arg))

\* ---------------------------------------------------------------- C37
\* C37: when a heartbeat tick has completed, no connection whose sink
\* rejects writes is registered: the tick's broadcast has attempted every
\* registered connection and every one whose write failed is gone from the
\* primary map and from both indices.
C37_DeadGoneAfterHeartbeat ==
  last.op = "heartbeat" =>
    /\ \A r \in Range(clients) : sink[r] = "open"
    /\ \A r \in last.failed :
         /\ r \notin Range(clients)
         /\ ~isConnected[r]
         /\ RecId(r) \notin IndexIds(userClients, RecUser(r))
         /\ RecId(r) \notin IndexIds(sessionClients, RecSession(r))

\* a heartbeat tick has removed a connection with a closed sink and has
\* written to the other one
C37_Witness ==
  /\ last.op = "heartbeat"
  /\ Cardinality(last.failed) = 1
  /\ \A r \in last.failed : sink[r] = "closed" /\ r \notin Range(clients)
  /\ Len(last.writes) = 1
  /\ Len(clients) = 1


\* ---------------------------------------------------------------- C39
\* the messages published so far that the capacity bound has not evicted
KeptMessages ==
  {m \in 1..storage.published : m > storage.published - storage.maxEvents}

\* C39: in the file adapter, once the constructor's load and every publish
\* have completed, every published event the capacity bound has not evicted
\* is in the in-memory buffer and in the saved file, whatever the order of
\* the steps of the load and of the publishes.
C39_PublishedSurvivesLoad ==
  (/\ ~storage.loadPending
   /\ Racing(storage).save = "idle"
   /\ storage.published > 0) =>
    /\ KeptMessages \subseteq Range(MessagesOf(storage.events))
    /\ storage.file.state = "events"
    /\ KeptMessages \subseteq Range(MessagesOf(storage.file.list))


\* ---------------------------------------------------------------- C40
\* C40: once destroy() has cleared both intervals the registry stays empty:
\* no later operation, addClient included, leaves a connection registered
\* that no heartbeat or cleanup tick will service.
C40_EmptyAfterDestroy ==
  (~heartbeatTimer /\ ~cleanupTimer) =>
    /\ getClientCount = 0
    /\ DOMAIN userClients = {}
    /\ DOMAIN sessionClients = {}

====
